---- MODULE Spec2Model ----
(***************************************************************************)
(* The automated inventory alert engine (server/services/alerts.ts) with   *)
(* the storage methods it calls (server/storage.ts), the mail functions    *)
(* (server/services/email.ts) and the routes that drive it                 *)
(* (server/routes.ts).                                                     *)
(*                                                                         *)
(* Every async function is a process held in a slot of proc.  Its pc names *)
(* the await it is suspended on; one action executes the awaited call and  *)
(* the synchronous code that follows it, up to the next await.             *)
(*                                                                         *)
(* Time is counted in ticks, TicksPerDay of them to a day.  An optional    *)
(* (nullable) value is a sequence of length 0 or 1.                        *)
(***************************************************************************)
EXTENDS Integers, Sequences, FiniteSets, TLC

VARIABLES
    now,                  \* the wall clock, in ticks (Date.now(), NOW())
    alert_config,         \* table alert_config: the rows with id = 1 (none or one)
    products,             \* table products: id -> row
    alert_notifications,  \* table alert_notifications, in insertion order
    mailbox,              \* every call of sendEmail, in order, with its outcome
    isInitialized,        \* AlertEngine.isInitialized
    cronJobs,             \* AlertEngine.cronJobs: name -> task id
    tasks,                \* node-cron tasks that are running: task id -> name
    serverUp,             \* registerRoutes got past alertEngine.initialize()
    proc                  \* the async calls in flight, by slot

vars == << now, alert_config, products, alert_notifications, mailbox,
           isInitialized, cronJobs, tasks, serverUp, proc >>

----------------------------------------------------------------------------
(* Bounds of the model *)

TicksPerDay == 2
MaxTime == 1
MaxStockTime == 4
MaxDigestTime == 15
MaxLog == 2
MaxTasks == 4
DaysPerMonth == 3
MonthsPerYear == 2

(* Program constants *)

HoursPerDay == 24
DedupHours == 24
WeeklyDays == 7
DefaultThreshold == 10
FallbackThreshold == 10

----------------------------------------------------------------------------
(* Optional values *)

None == << >>
Some(x) == << x >>
IsSome(o) == Len(o) > 0
Get(o) == o[1]

Products == {1, 2}
Slots == {1, 2}
TaskIds == 1..MaxTasks

Recipients == << "a@x.com" >>
DefaultFrom == "alertas@kor-sistema.com"

----------------------------------------------------------------------------
(* Dates.  A tick is HoursPerTick hours; the calendar has DaysPerMonth days  *)
(* to a month and MonthsPerYear months to a year.                          *)

HoursPerTick == HoursPerDay \div TicksPerDay

DayOf(t) == t \div TicksPerDay
getDate(t) == (DayOf(t) % DaysPerMonth) + 1
getMonth(t) == (DayOf(t) \div DaysPerMonth) % MonthsPerYear
getFullYear(t) == DayOf(t) \div (DaysPerMonth * MonthsPerYear)

----------------------------------------------------------------------------
(* storage.ts: the alert methods of PostgreSQLStorage, as functions of the *)
(* tables.  The columns created_at and updated_at are left out.            *)

\* DefaultConfigRow with alerts disabled.
DefaultConfigRow_Disabled ==
    [ id |-> 1,
      defaultThreshold |-> Some(DefaultThreshold),
      summaryFrequency |-> "daily",
      recipients |-> None,
      lastDailyDigestAt |-> None,
      lastWeeklyDigestAt |-> None,
      isEnabled |-> FALSE,
      fromEmail |-> Some(DefaultFrom) ]

\* The row INSERT INTO alert_config (id, default_threshold, summary_frequency,
\* is_enabled) VALUES (1, 10, 'daily', true) creates, with the column defaults.
DefaultConfigRow ==
    [ id |-> 1,
      defaultThreshold |-> Some(DefaultThreshold),
      summaryFrequency |-> "daily",
      recipients |-> None,
      lastDailyDigestAt |-> None,
      lastWeeklyDigestAt |-> None,
      isEnabled |-> TRUE,
      fromEmail |-> Some(DefaultFrom) ]

\* UPDATE alert_config SET <the fields the partial config defines> WHERE id = 1.
\* A partial config is a function from the names of the fields it defines.
updateAlertConfig(table, config) ==
    IF DOMAIN config = {}
      THEN table
      ELSE [ k \in DOMAIN table |->
               [ f \in DOMAIN table[k] |->
                   IF f \in DOMAIN config THEN config[f] ELSE table[k][f] ] ]

\* IsLowStock with a quantity equal to the threshold counted as low.
IsLowStock_Inclusive(row, threshold) ==
    LET defaultThreshold ==
            IF IsSome(threshold) /\ Get(threshold) # 0
              THEN Get(threshold) ELSE FallbackThreshold
        effective ==
            IF IsSome(row.lowStockThreshold)
              THEN Get(row.lowStockThreshold) ELSE defaultThreshold
    IN  \/ row.stockCantidad <= effective
        \/ row.stock = "Sin Stock"
        \/ row.stock = "Consultar"

\* The WHERE clause of getLowStockProducts for one row.
IsLowStock(row, threshold) ==
    LET defaultThreshold ==
            IF IsSome(threshold) /\ Get(threshold) # 0
              THEN Get(threshold) ELSE FallbackThreshold
        effective ==
            IF IsSome(row.lowStockThreshold)
              THEN Get(row.lowStockThreshold) ELSE defaultThreshold
    IN  \/ row.stockCantidad < effective
        \/ row.stock = "Sin Stock"
        \/ row.stock = "Consultar"

\* ORDER BY stock_cantidad ASC, sku ASC (the sku of product p is SKU-p).
RECURSIVE OrderByStock(_, _)
OrderByStock(rows, S) ==
    IF S = {} THEN << >>
    ELSE LET first == CHOOSE p \in S : \A q \in S :
                        \/ rows[p].stockCantidad < rows[q].stockCantidad
                        \/ /\ rows[p].stockCantidad = rows[q].stockCantidad
                           /\ p <= q
         IN  << first >> \o OrderByStock(rows, S \ {first})

getLowStockProducts(rows, threshold) ==
    OrderByStock(rows, { p \in DOMAIN rows : IsLowStock(rows[p], threshold) })

\* updateProductNotificationTime without its WHERE clause.
updateProductNotificationTime_All(rows, productId, t) ==
    [ p \in DOMAIN rows |-> [ rows[p] EXCEPT !.lowStockNotifiedAt = Some(t) ] ]

\* UPDATE products SET low_stock_notified_at = NOW() WHERE id = productId
updateProductNotificationTime(rows, productId, t) ==
    [ rows EXCEPT ![productId].lowStockNotifiedAt = Some(t) ]

\* INSERT INTO alert_notifications: sent_at defaults to NOW().  The body is kept
\* as the product count it states.
createAlertNotification(log, notification, t) ==
    Append(log, [ type |-> notification.type,
                  recipients |-> notification.recipients,
                  subject |-> notification.subject,
                  body |-> notification.body,
                  status |-> notification.status,
                  error |-> notification.error,
                  sentAt |-> t ])

\* getProductStats: the counts the digest uses.
getProductStats(rows) ==
    LET enStock == Cardinality({ p \in DOMAIN rows : rows[p].stock = "Disponible" })
    IN  [ totalProductos |-> Cardinality(DOMAIN rows),
          sinStock |-> Cardinality(DOMAIN rows) - enStock ]

SeqToSet(s) == { s[i] : i \in 1..Len(s) }

----------------------------------------------------------------------------
(* email.ts *)

\* EmailProducts with only the first product of the list.
EmailProducts_First(rows, list, config) ==
    [ i \in 1..(IF Len(list) = 0 THEN 0 ELSE 1) |->
        [ sku |-> list[i],
          stockCantidad |-> rows[list[i]].stockCantidad,
          lowStockThreshold |-> config.defaultThreshold ] ]

\* What the engine passes for each listed product (alerts.ts 131-137, 223-229).
EmailProducts(rows, list, config) ==
    [ i \in 1..Len(list) |->
        [ sku |-> list[i],
          stockCantidad |-> rows[list[i]].stockCantidad,
          lowStockThreshold |->
              IF IsSome(rows[list[i]].lowStockThreshold)
                THEN rows[list[i]].lowStockThreshold
                ELSE config.defaultThreshold ] ]

\* sendLowStockAlert reaches sendEmail only with products and recipients.
LowStockAlertCallsTransport(emailProducts, recipients) ==
    Len(emailProducts) # 0 /\ Len(recipients) # 0

\* sendDigestEmail reaches sendEmail only with recipients.
DigestCallsTransport(recipients) ==
    Len(recipients) # 0

\* One call of sendEmail as the transport sees it; ok is what it returned
\* (false without an API key or when the provider rejects the message).
Mail(kind, frequency, emailProducts, recipients, from, ok, t) ==
    [ kind |-> kind, frequency |-> frequency, products |-> emailProducts,
      to |-> recipients, from |-> from, ok |-> ok, at |-> t ]

----------------------------------------------------------------------------
(* The async calls in flight *)

NoPre ==
    [ products |-> << >>, alert_config |-> << >>, nlog |-> 0, nmail |-> 0,
      isInitialized |-> FALSE, cronJobs |-> << >>, tasks |-> << >> ]

\* The state a call started in, kept (to state what the call changed) when no
\* other call was in flight.
Pre ==
    IF \A r \in Slots : proc[r].op = "idle"
      THEN [ products |-> products, alert_config |-> alert_config,
             nlog |-> Len(alert_notifications), nmail |-> Len(mailbox),
             isInitialized |-> isInitialized, cronJobs |-> cronJobs, tasks |-> tasks ]
      ELSE NoPre

IdleProc ==
    [ op |-> "idle", pc |-> "idle", via |-> "none",
      forceNotification |-> FALSE, frequency |-> "none", body |-> << >>,
      config |-> None, lowStockProducts |-> << >>, productsToNotify |-> << >>,
      stats |-> << >>, emailSent |-> FALSE, i |-> 0, date |-> 0, failed |-> "none",
      pre |-> NoPre ]

Call(op, pc, via) ==
    [ IdleProc EXCEPT !.op = op, !.pc = pc, !.via = via, !.pre = Pre ]

Idle(r) == proc[r].op = "idle"
AllIdle == \A r \in Slots : Idle(r)

\* Room left in the log and the mailbox for one more call (a bound of the model).
Room == Len(alert_notifications) < MaxLog /\ Len(mailbox) < MaxLog

\* The call in slot r returns to its caller; registerRoutes goes on to register
\* the routes once its initialize() has returned (routes.ts 38).
Return(r) ==
    /\ proc[r].pc = "done"
    /\ proc' = [ proc EXCEPT ![r] = IdleProc ]
    /\ serverUp' = (serverUp \/ proc[r].via = "startup")
    /\ UNCHANGED << now, alert_config, products, alert_notifications, mailbox,
                    isInitialized, cronJobs, tasks >>

----------------------------------------------------------------------------
(* storage.getAlertConfig, as the calls suspended on it see it: the SELECT, *)
(* and on an empty table the INSERT ... ON CONFLICT (id) DO NOTHING.        *)

AwaitsConfig(r) == proc[r].pc \in { "getAlertConfig", "insertDefault" }

\* The SELECT found no row: the INSERT is issued.
GetAlertConfigMiss(r) ==
    /\ proc[r].pc = "getAlertConfig"
    /\ alert_config = << >>
    /\ proc' = [ proc EXCEPT ![r].pc = "insertDefault" ]
    /\ UNCHANGED << now, alert_config, products, alert_notifications, mailbox,
                    isInitialized, cronJobs, tasks, serverUp >>

\* getAlertConfig resolves in this step.
ConfigResolves(r) ==
    /\ AwaitsConfig(r)
    /\ proc[r].pc = "getAlertConfig" => alert_config # << >>

\* What it resolves to: result[0], or the RETURNING row of the INSERT (nothing
\* on a conflict).
ConfigResult(r) ==
    IF proc[r].pc = "getAlertConfig"
      THEN Some(alert_config[1])
      ELSE IF alert_config = << >> THEN Some(DefaultConfigRow) ELSE None

ConfigTable(r) ==
    IF proc[r].pc = "insertDefault" /\ alert_config = << >>
      THEN << DefaultConfigRow >>
      ELSE alert_config

----------------------------------------------------------------------------
(* AlertEngine.checkLowStock (alerts.ts 91-178) *)

\* The filter of lines 115-121 for one low-stock row at time t.
hoursSinceNotified(row, t) == (t - Get(row.lowStockNotifiedAt)) * HoursPerTick

\* NotNotifiedRecently with no window at all.
NotNotifiedRecently_Always(row, t) == TRUE

\* NotNotifiedRecently with the 24th hour still inside the window.
NotNotifiedRecently_Strict(row, t) ==
    \/ ~IsSome(row.lowStockNotifiedAt)
    \/ hoursSinceNotified(row, t) > DedupHours

NotNotifiedRecently(row, t) ==
    \/ ~IsSome(row.lowStockNotifiedAt)
    \/ hoursSinceNotified(row, t) >= DedupHours

\* ProductsToNotify with the filter applied to a forced check too.
ProductsToNotify_IgnoresForce(rows, lowStockProducts, forceNotification, t) ==
    SelectSeq(lowStockProducts, LAMBDA p : NotNotifiedRecently(rows[p], t))

\* ProductsToNotify that takes a product only while it was never notified.
ProductsToNotify_OnceOnly(rows, lowStockProducts, forceNotification, t) ==
    IF forceNotification
      THEN lowStockProducts
      ELSE SelectSeq(lowStockProducts, LAMBDA p : ~IsSome(rows[p].lowStockNotifiedAt))

\* productsToNotify of lines 113-121.
ProductsToNotify(rows, lowStockProducts, forceNotification, t) ==
    IF forceNotification
      THEN lowStockProducts
      ELSE SelectSeq(lowStockProducts, LAMBDA p : NotNotifiedRecently(rows[p], t))

\* ConfigAllows without the isEnabled test.
ConfigAllows_IgnoresEnabled(config) ==
    /\ IsSome(config)
    /\ IsSome(Get(config).recipients)
    /\ Len(Get(Get(config).recipients)) # 0

\* Lines 95-102 and 185-192: the configuration lets the run go on.
ConfigAllows(config) ==
    /\ IsSome(config)
    /\ Get(config).isEnabled
    /\ IsSome(Get(config).recipients)
    /\ Len(Get(Get(config).recipients)) # 0

\* checkLowStock is called: it awaits storage.getAlertConfig().
CallCheckLowStock(r, forceNotification, via) ==
    /\ Idle(r)
    /\ Room
    /\ proc' = [ proc EXCEPT ![r] =
                   [ Call("checkLowStock", "getAlertConfig", via)
                       EXCEPT !.forceNotification = forceNotification ] ]
    /\ UNCHANGED << now, alert_config, products, alert_notifications, mailbox,
                    isInitialized, cronJobs, tasks, serverUp >>

\* Lines 93-105: the configuration arrives; getLowStockProducts is awaited.
CheckLowStockConfig(r) ==
    /\ proc[r].op = "checkLowStock"
    /\ ConfigResolves(r)
    /\ alert_config' = ConfigTable(r)
    /\ proc' = [ proc EXCEPT
                   ![r].config = ConfigResult(r),
                   ![r].pc = IF ConfigAllows(ConfigResult(r))
                               THEN "getLowStockProducts" ELSE "done" ]
    /\ UNCHANGED << now, products, alert_notifications, mailbox,
                    isInitialized, cronJobs, tasks, serverUp >>

\* CheckLowStockProducts that leaves out the products a run still in flight has
\* listed.
CheckLowStockProducts_Exclusive(r) ==
    /\ proc[r].op = "checkLowStock"
    /\ proc[r].pc = "getLowStockProducts"
    /\ LET config == Get(proc[r].config)
           lowStockProducts == getLowStockProducts(products, config.defaultThreshold)
           taken == { p \in Products :
                        \E q \in Slots \ { r } :
                          \E k \in 1..Len(proc[q].productsToNotify) :
                            proc[q].productsToNotify[k] = p }
           productsToNotify ==
               SelectSeq(ProductsToNotify(products, lowStockProducts,
                                          proc[r].forceNotification, now),
                         LAMBDA p : p \notin taken)
       IN  proc' = [ proc EXCEPT
                       ![r].lowStockProducts = lowStockProducts,
                       ![r].productsToNotify = productsToNotify,
                       ![r].pc = IF Len(lowStockProducts) = 0 \/ Len(productsToNotify) = 0
                                   THEN "done" ELSE "sendLowStockAlert" ]
    /\ UNCHANGED << now, alert_config, products, alert_notifications, mailbox,
                    isInitialized, cronJobs, tasks, serverUp >>

\* Lines 105-140: the low-stock rows arrive, are filtered, and the alert is
\* handed to sendLowStockAlert.
CheckLowStockProducts(r) ==
    /\ proc[r].op = "checkLowStock"
    /\ proc[r].pc = "getLowStockProducts"
    /\ LET config == Get(proc[r].config)
           lowStockProducts == getLowStockProducts(products, config.defaultThreshold)
           productsToNotify ==
               ProductsToNotify(products, lowStockProducts,
                                proc[r].forceNotification, now)
       IN  proc' = [ proc EXCEPT
                       ![r].lowStockProducts = lowStockProducts,
                       ![r].productsToNotify = productsToNotify,
                       ![r].pc = IF Len(lowStockProducts) = 0 \/ Len(productsToNotify) = 0
                                   THEN "done" ELSE "sendLowStockAlert" ]
    /\ UNCHANGED << now, alert_config, products, alert_notifications, mailbox,
                    isInitialized, cronJobs, tasks, serverUp >>

\* CheckLowStockAfterSend with the timestamps written whatever emailSent is.
CheckLowStockAfterSend_Always(emailSent) == "updateProductNotificationTime"

\* Lines 146-152, 162-166: what checkLowStock awaits next, by emailSent.
CheckLowStockAfterSend(emailSent) ==
    IF emailSent THEN "updateProductNotificationTime" ELSE "createAlertNotification"

\* Lines 140-152, 162-166: sendLowStockAlert returns emailSent.
CheckLowStockSend(r) ==
    /\ proc[r].op = "checkLowStock"
    /\ proc[r].pc = "sendLowStockAlert"
    /\ LET config == Get(proc[r].config)
           recipients == Get(config.recipients)
           from == IF IsSome(config.fromEmail)
                     THEN Get(config.fromEmail) ELSE "noreply@inventario.com"
           emailProducts == EmailProducts(products, proc[r].productsToNotify, config)
       IN  \E ok \in BOOLEAN :
             LET called == LowStockAlertCallsTransport(emailProducts, recipients)
                 emailSent == called /\ ok
             IN  /\ mailbox' = IF called
                                 THEN Append(mailbox,
                                        Mail("low_stock", "none", emailProducts,
                                             recipients, from, ok, now))
                                 ELSE mailbox
                 /\ proc' = [ proc EXCEPT
                                ![r].emailSent = emailSent,
                                ![r].i = 1,
                                ![r].pc = CheckLowStockAfterSend(emailSent) ]
    /\ UNCHANGED << now, alert_config, products, alert_notifications,
                    isInitialized, cronJobs, tasks, serverUp >>

\* CheckLowStockUpdateTime that leaves the timestamps alone after a forced
\* check.
CheckLowStockUpdateTime_SkipsForced(r) ==
    /\ proc[r].op = "checkLowStock"
    /\ proc[r].pc = "updateProductNotificationTime"
    /\ products' = IF proc[r].forceNotification
                     THEN products
                     ELSE updateProductNotificationTime(
                              products, proc[r].productsToNotify[proc[r].i], now)
    /\ proc' = [ proc EXCEPT
                   ![r].i = @ + 1,
                   ![r].pc = IF proc[r].i < Len(proc[r].productsToNotify)
                               THEN "updateProductNotificationTime"
                               ELSE "createAlertNotification" ]
    /\ UNCHANGED << now, alert_config, alert_notifications, mailbox,
                    isInitialized, cronJobs, tasks, serverUp >>

\* Lines 150-152: one await of the loop over productsToNotify.
CheckLowStockUpdateTime(r) ==
    /\ proc[r].op = "checkLowStock"
    /\ proc[r].pc = "updateProductNotificationTime"
    /\ products' = updateProductNotificationTime(
                       products, proc[r].productsToNotify[proc[r].i], now)
    /\ proc' = [ proc EXCEPT
                   ![r].i = @ + 1,
                   ![r].pc = IF proc[r].i < Len(proc[r].productsToNotify)
                               THEN "updateProductNotificationTime"
                               ELSE "createAlertNotification" ]
    /\ UNCHANGED << now, alert_config, alert_notifications, mailbox,
                    isInitialized, cronJobs, tasks, serverUp >>

\* The log entry of lines 155-161 (sent) or 166-173 (error).
LowStockNotification(r) ==
    [ type |-> "low_stock",
      recipients |-> Get(Get(proc[r].config).recipients),
      subject |-> "Alerta",
      body |-> Len(proc[r].productsToNotify),
      status |-> IF proc[r].emailSent THEN "sent" ELSE "error",
      error |-> IF proc[r].emailSent THEN None ELSE Some("Error al enviar email") ]

CheckLowStockLog(r) ==
    /\ proc[r].op = "checkLowStock"
    /\ proc[r].pc = "createAlertNotification"
    /\ alert_notifications' =
           createAlertNotification(alert_notifications, LowStockNotification(r), now)
    /\ proc' = [ proc EXCEPT ![r].pc = "done" ]
    /\ UNCHANGED << now, alert_config, products, mailbox,
                    isInitialized, cronJobs, tasks, serverUp >>

----------------------------------------------------------------------------
(* AlertEngine.sendDigest (alerts.ts 181-280) *)

\* DailyAlreadySent with only the day of the month compared.
DailyAlreadySent_DateOnly(config, t) ==
    /\ IsSome(config.lastDailyDigestAt)
    /\ getDate(Get(config.lastDailyDigestAt)) = getDate(t)

\* Lines 195-206: the daily digest was already sent on the date of t.
DailyAlreadySent(config, t) ==
    /\ IsSome(config.lastDailyDigestAt)
    /\ LET lastSent == Get(config.lastDailyDigestAt)
       IN  /\ getDate(lastSent) = getDate(t)
           /\ getMonth(lastSent) = getMonth(t)
           /\ getFullYear(lastSent) = getFullYear(t)

\* WeeklyAlreadySent with the seventh day still inside the window.
WeeklyAlreadySent_Inclusive(config, t) ==
    /\ IsSome(config.lastWeeklyDigestAt)
    /\ (t - Get(config.lastWeeklyDigestAt)) * HoursPerTick <= WeeklyDays * HoursPerDay

\* Lines 208-216: daysSinceLastSent < 7, in hours on both sides.
WeeklyAlreadySent(config, t) ==
    /\ IsSome(config.lastWeeklyDigestAt)
    /\ (t - Get(config.lastWeeklyDigestAt)) * HoursPerTick < WeeklyDays * HoursPerDay

AlreadySent(frequency, config, t) ==
    \/ frequency = "daily" /\ DailyAlreadySent(config, t)
    \/ frequency = "weekly" /\ WeeklyAlreadySent(config, t)

\* sendDigest is called: it awaits storage.getAlertConfig().
CallSendDigest(r, frequency, via) ==
    /\ Idle(r)
    /\ Room
    /\ proc' = [ proc EXCEPT ![r] =
                   [ Call("sendDigest", "getAlertConfig", via)
                       EXCEPT !.frequency = frequency ] ]
    /\ UNCHANGED << now, alert_config, products, alert_notifications, mailbox,
                    isInitialized, cronJobs, tasks, serverUp >>

\* Lines 183-219: the configuration arrives and the period guard is applied.
SendDigestConfig(r) ==
    /\ proc[r].op = "sendDigest"
    /\ ConfigResolves(r)
    /\ alert_config' = ConfigTable(r)
    /\ proc' = [ proc EXCEPT
                   ![r].config = ConfigResult(r),
                   ![r].pc =
                       IF /\ ConfigAllows(ConfigResult(r))
                          /\ ~AlreadySent(proc[r].frequency, Get(ConfigResult(r)), now)
                         THEN "getProductStats" ELSE "done" ]
    /\ UNCHANGED << now, products, alert_notifications, mailbox,
                    isInitialized, cronJobs, tasks, serverUp >>

\* Line 219: the statistics arrive.
SendDigestStats(r) ==
    /\ proc[r].op = "sendDigest"
    /\ proc[r].pc = "getProductStats"
    /\ proc' = [ proc EXCEPT ![r].stats = getProductStats(products),
                             ![r].pc = "getLowStockProducts" ]
    /\ UNCHANGED << now, alert_config, products, alert_notifications, mailbox,
                    isInitialized, cronJobs, tasks, serverUp >>

\* SendDigestProducts with the 24-hour filter of checkLowStock applied.
SendDigestProducts_Deduplicated(r) ==
    /\ proc[r].op = "sendDigest"
    /\ proc[r].pc = "getLowStockProducts"
    /\ proc' = [ proc EXCEPT
                   ![r].lowStockProducts =
                       ProductsToNotify(
                           products,
                           getLowStockProducts(products,
                                               Get(proc[r].config).defaultThreshold),
                           FALSE, now),
                   ![r].pc = "sendDigestEmail" ]
    /\ UNCHANGED << now, alert_config, products, alert_notifications, mailbox,
                    isInitialized, cronJobs, tasks, serverUp >>

\* Lines 220-244: the low-stock rows arrive, all of them are listed.
SendDigestProducts(r) ==
    /\ proc[r].op = "sendDigest"
    /\ proc[r].pc = "getLowStockProducts"
    /\ proc' = [ proc EXCEPT
                   ![r].lowStockProducts =
                       getLowStockProducts(products, Get(proc[r].config).defaultThreshold),
                   ![r].pc = "sendDigestEmail" ]
    /\ UNCHANGED << now, alert_config, products, alert_notifications, mailbox,
                    isInitialized, cronJobs, tasks, serverUp >>

\* SendDigestAfterSend with the guard timestamp written whatever emailSent is.
SendDigestAfterSend_Always(emailSent) == "updateAlertConfig"

\* Lines 246-254, 264-268: what sendDigest awaits next, by emailSent.
SendDigestAfterSend(emailSent) ==
    IF emailSent THEN "updateAlertConfig" ELSE "createAlertNotification"

\* Lines 238-254, 264-268: sendDigestEmail returns emailSent; on success the
\* guard timestamp new Date() is handed to updateAlertConfig.
SendDigestSend(r) ==
    /\ proc[r].op = "sendDigest"
    /\ proc[r].pc = "sendDigestEmail"
    /\ LET config == Get(proc[r].config)
           recipients == Get(config.recipients)
           from == IF IsSome(config.fromEmail)
                     THEN Get(config.fromEmail) ELSE "noreply@inventario.com"
           emailProducts == EmailProducts(products, proc[r].lowStockProducts, config)
       IN  \E ok \in BOOLEAN :
             LET called == DigestCallsTransport(recipients)
                 emailSent == called /\ ok
             IN  /\ mailbox' = IF called
                                 THEN Append(mailbox,
                                        Mail("digest", proc[r].frequency, emailProducts,
                                             recipients, from, ok, now))
                                 ELSE mailbox
                 /\ proc' = [ proc EXCEPT
                                ![r].emailSent = emailSent,
                                ![r].date = now,
                                ![r].pc = SendDigestAfterSend(emailSent) ]
    /\ UNCHANGED << now, alert_config, products, alert_notifications,
                    isInitialized, cronJobs, tasks, serverUp >>

\* DigestGuardUpdate that writes both guard timestamps.
DigestGuardUpdate_Both(frequency, date) ==
    [ f \in { "lastDailyDigestAt", "lastWeeklyDigestAt" } |-> Some(date) ]

\* The partial config of line 251 or 253.
DigestGuardUpdate(frequency, date) ==
    IF frequency = "daily"
      THEN [ f \in { "lastDailyDigestAt" } |-> Some(date) ]
      ELSE [ f \in { "lastWeeklyDigestAt" } |-> Some(date) ]

\* Lines 250-254: the guard timestamp is persisted.
SendDigestUpdateConfig(r) ==
    /\ proc[r].op = "sendDigest"
    /\ proc[r].pc = "updateAlertConfig"
    /\ alert_config' = updateAlertConfig(
                           alert_config,
                           DigestGuardUpdate(proc[r].frequency, proc[r].date))
    /\ proc' = [ proc EXCEPT ![r].pc = "createAlertNotification" ]
    /\ UNCHANGED << now, products, alert_notifications, mailbox,
                    isInitialized, cronJobs, tasks, serverUp >>

\* The log entry of lines 257-263 (sent) or 268-275 (error).
DigestNotification(r) ==
    [ type |-> "digest",
      recipients |-> Get(Get(proc[r].config).recipients),
      subject |-> IF proc[r].frequency = "daily"
                    THEN "Resumen Diario" ELSE "Resumen Semanal",
      body |-> Len(proc[r].lowStockProducts),
      status |-> IF proc[r].emailSent THEN "sent" ELSE "error",
      error |-> IF proc[r].emailSent THEN None ELSE Some("Error al enviar email") ]

SendDigestLog(r) ==
    /\ proc[r].op = "sendDigest"
    /\ proc[r].pc = "createAlertNotification"
    /\ alert_notifications' =
           createAlertNotification(alert_notifications, DigestNotification(r), now)
    /\ proc' = [ proc EXCEPT ![r].pc = "done" ]
    /\ UNCHANGED << now, alert_config, products, mailbox,
                    isInitialized, cronJobs, tasks, serverUp >>

----------------------------------------------------------------------------
(* AlertEngine: initialize, stop, the schedulers, reconfigure               *)
(* (alerts.ts 12-88, 283-291)                                               *)

\* The tasks that no entry of cronJobs holds.
Unregistered == DOMAIN tasks \ { cronJobs[n] : n \in DOMAIN cronJobs }

\* The calls suspended inside initialize().
Initializing ==
    { r \in Slots : proc[r].op \in { "initialize", "putConfig" }
                    /\ proc[r].pc # "done" }

\* Task ids are left for one more initialize() (a bound of the model).
TaskRoom ==
    Cardinality(Unregistered) + 2 * (Cardinality(Initializing) + 1) <= MaxTasks

\* schedule<X>: the task is created, started and registered under its name
\* (Map.set replaces an entry of the same name).
scheduleTask(state, name) ==
    LET id == CHOOSE i \in TaskIds \ DOMAIN state.tasks :
                  \A other \in TaskIds \ DOMAIN state.tasks : i <= other
    IN  [ tasks |-> (id :> name) @@ state.tasks,
          cronJobs |-> (name :> id) @@ state.cronJobs ]

\* Lines 27-35: the tasks initialize() schedules for a configuration.
scheduleAll(state, config) ==
    LET first == scheduleTask(state, "stock-check")
    IN  IF config.summaryFrequency = "daily"
          THEN scheduleTask(first, "daily-digest")
          ELSE IF config.summaryFrequency = "weekly"
            THEN scheduleTask(first, "weekly-digest")
            ELSE first

\* stopTasks with no job stopped.
stopTasks_KeepsAll == tasks

\* stop(): every registered job is stopped, the registry cleared.
stopTasks == [ id \in Unregistered |-> tasks[id] ]

\* EnterInitialize without the isInitialized guard of lines 13-15.
EnterInitialize_NoGuard(r, via) ==
    proc' = [ proc EXCEPT ![r] = Call("initialize", "getAlertConfig", via) ]

\* initialize() is called (by registerRoutes at start-up, or by any other
\* holder of the exported alertEngine): lines 13-20.
EnterInitialize(r, via) ==
    proc' = [ proc EXCEPT ![r] =
                Call("initialize", IF isInitialized THEN "done" ELSE "getAlertConfig", via) ]

\* routes.ts 38: registerRoutes awaits alertEngine.initialize().
Startup(r) ==
    /\ ~serverUp
    /\ AllIdle
    /\ EnterInitialize(r, "startup")
    /\ UNCHANGED << now, alert_config, products, alert_notifications, mailbox,
                    isInitialized, cronJobs, tasks, serverUp >>

CallInitialize(r) ==
    /\ serverUp
    /\ Idle(r)
    /\ TaskRoom
    /\ EnterInitialize(r, "call")
    /\ UNCHANGED << now, alert_config, products, alert_notifications, mailbox,
                    isInitialized, cronJobs, tasks, serverUp >>

\* Line 20: the database answers getAlertConfig for initialize().
InitializeConfig(r) ==
    /\ proc[r].op \in { "initialize", "putConfig" }
    /\ ConfigResolves(r)
    /\ alert_config' = ConfigTable(r)
    /\ proc' = [ proc EXCEPT ![r].config = ConfigResult(r), ![r].pc = "schedule" ]
    /\ UNCHANGED << now, products, alert_notifications, mailbox,
                    isInitialized, cronJobs, tasks, serverUp >>

\* InitializeSchedule without the test of lines 22-25.
InitializeSchedule_IgnoresEnabled(r) ==
    /\ proc[r].op \in { "initialize", "putConfig" }
    /\ proc[r].pc = "schedule"
    /\ IF ~IsSome(proc[r].config)
         THEN UNCHANGED << isInitialized, cronJobs, tasks >>
         ELSE LET after == scheduleAll([ tasks |-> tasks, cronJobs |-> cronJobs ],
                                       Get(proc[r].config))
              IN  /\ tasks' = after.tasks
                  /\ cronJobs' = after.cronJobs
                  /\ isInitialized' = TRUE
    /\ proc' = [ proc EXCEPT ![r].pc = "done" ]
    /\ UNCHANGED << now, alert_config, products, alert_notifications, mailbox,
                    serverUp >>

\* Lines 22-38: initialize() resumes with the configuration it was given.
InitializeSchedule(r) ==
    /\ proc[r].op \in { "initialize", "putConfig" }
    /\ proc[r].pc = "schedule"
    /\ IF ~IsSome(proc[r].config) \/ ~Get(proc[r].config).isEnabled
         THEN UNCHANGED << isInitialized, cronJobs, tasks >>
         ELSE LET after == scheduleAll([ tasks |-> tasks, cronJobs |-> cronJobs ],
                                       Get(proc[r].config))
              IN  /\ tasks' = after.tasks
                  /\ cronJobs' = after.cronJobs
                  /\ isInitialized' = TRUE
    /\ proc' = [ proc EXCEPT ![r].pc = "done" ]
    /\ UNCHANGED << now, alert_config, products, alert_notifications, mailbox,
                    serverUp >>

\* routes.ts 459-463: PUT /api/alerts/config awaits storage.updateAlertConfig.
\* (A body that defines no field is left out: updateAlertConfig then only reads.)
CallPutConfig(r, body) ==
    /\ serverUp
    /\ Idle(r)
    /\ TaskRoom
    /\ DOMAIN body # {}
    /\ proc' = [ proc EXCEPT ![r] =
                   [ Call("putConfig", "updateAlertConfig", "route")
                       EXCEPT !.body = body ] ]
    /\ UNCHANGED << now, alert_config, products, alert_notifications, mailbox,
                    isInitialized, cronJobs, tasks, serverUp >>

\* storage.ts 604-667: the database executes the UPDATE.
PutConfigUpdate(r) ==
    /\ proc[r].op = "putConfig"
    /\ proc[r].pc = "updateAlertConfig"
    /\ alert_config' = updateAlertConfig(alert_config, proc[r].body)
    /\ proc' = [ proc EXCEPT ![r].pc = "reconfigure" ]
    /\ UNCHANGED << now, products, alert_notifications, mailbox,
                    isInitialized, cronJobs, tasks, serverUp >>

\* routes.ts 466 and alerts.ts 283-290, 45-52, 13-20: the handler resumes,
\* reconfigure() runs stop() and enters initialize().
PutConfigReconfigure(r) ==
    /\ proc[r].op = "putConfig"
    /\ proc[r].pc = "reconfigure"
    /\ tasks' = stopTasks
    /\ cronJobs' = << >>
    /\ isInitialized' = FALSE
    /\ proc' = [ proc EXCEPT ![r].pc = "getAlertConfig" ]
    /\ UNCHANGED << now, alert_config, products, alert_notifications, mailbox,
                    serverUp >>

\* stop() is called on its own (alerts.ts 45-52); it has no await.
CallStop(r) ==
    /\ serverUp
    /\ Idle(r)
    /\ tasks' = stopTasks
    /\ cronJobs' = << >>
    /\ isInitialized' = FALSE
    /\ proc' = [ proc EXCEPT ![r] = Call("stop", "done", "call") ]
    /\ UNCHANGED << now, alert_config, products, alert_notifications, mailbox,
                    serverUp >>

----------------------------------------------------------------------------
(* A storage call rejects (the database is unreachable, a statement fails) *)

\* The awaits on a method of storage.
StorageAwaits ==
    { "getAlertConfig", "insertDefault", "getLowStockProducts", "getProductStats",
      "updateProductNotificationTime", "updateAlertConfig", "createAlertNotification" }

\* Catch with the error thrown on to the caller.
Catch_Rethrows(op) == "raised"

\* Where a rejection inside op ends: every await of checkLowStock (alerts.ts
\* 92, 175-177), of sendDigest (182, 277-279) and of initialize (19, 39-41) is
\* inside a try whose catch only logs; the handler of PUT /api/alerts/config
\* (routes.ts 460, 469-471) answers 400.
Catch(op) ==
    IF op \in { "checkLowStock", "sendDigest", "initialize", "putConfig" }
      THEN "caught" ELSE "raised"

\* The storage call the call in slot r is suspended on rejects without having
\* written; the catch block runs and the method returns.
StorageFails(r) ==
    /\ proc[r].pc \in StorageAwaits
    /\ proc' = [ proc EXCEPT ![r].pc = "done", ![r].failed = Catch(proc[r].op) ]
    /\ UNCHANGED << now, alert_config, products, alert_notifications, mailbox,
                    isInitialized, cronJobs, tasks, serverUp >>

----------------------------------------------------------------------------
(* What calls the engine: the cron tasks and the routes *)

\* alerts.ts 56-59: a running stock-check task fires.
CronStockCheck(r) ==
    /\ \E id \in DOMAIN tasks : tasks[id] = "stock-check"
    /\ CallCheckLowStock(r, FALSE, "cron")

\* alerts.ts 68-71: a running daily-digest task fires.
CronDailyDigest(r) ==
    /\ \E id \in DOMAIN tasks : tasks[id] = "daily-digest"
    /\ CallSendDigest(r, "daily", "cron")

\* alerts.ts 80-83: a running weekly-digest task fires.
CronWeeklyDigest(r) ==
    /\ \E id \in DOMAIN tasks : tasks[id] = "weekly-digest"
    /\ CallSendDigest(r, "weekly", "cron")

\* routes.ts 519-527 and alerts.ts 298-300: POST /api/alerts/check-stock.
ManualStockCheck(r, force) ==
    /\ serverUp
    /\ CallCheckLowStock(r, force, "manual")

\* ManualDigest that clears the guard timestamps before it calls sendDigest.
ManualDigest_Forced(r, frequency) ==
    /\ serverUp
    /\ frequency \in { "daily", "weekly" }
    /\ Idle(r)
    /\ Room
    /\ alert_config' = updateAlertConfig(alert_config,
                           [ f \in { "lastDailyDigestAt", "lastWeeklyDigestAt" } |-> None ])
    /\ proc' = [ proc EXCEPT ![r] =
                   [ Call("sendDigest", "getAlertConfig", "manual")
                       EXCEPT !.frequency = frequency ] ]
    /\ UNCHANGED << now, products, alert_notifications, mailbox,
                    isInitialized, cronJobs, tasks, serverUp >>

\* routes.ts 530-542 and alerts.ts 303-305: POST /api/alerts/send-digest.
ManualDigest(r, frequency) ==
    /\ serverUp
    /\ frequency \in { "daily", "weekly" }
    /\ CallSendDigest(r, frequency, "manual")

\* UpdateProduct that also clears the notification timestamp.
UpdateProduct_ClearsNotified(p, stock) ==
    /\ serverUp
    /\ products[p].stock # stock
    /\ products' = [ products EXCEPT ![p].stock = stock,
                                      ![p].lowStockNotifiedAt = None ]
    /\ UNCHANGED << now, alert_config, alert_notifications, mailbox,
                    isInitialized, cronJobs, tasks, serverUp, proc >>

\* storage.updateProduct (storage.ts 245-343) with a new stock status: the
\* only column of the low-stock predicate it writes.
UpdateProduct(p, stock) ==
    /\ serverUp
    /\ products[p].stock # stock
    /\ products' = [ products EXCEPT ![p].stock = stock ]
    /\ UNCHANGED << now, alert_config, alert_notifications, mailbox,
                    isInitialized, cronJobs, tasks, serverUp, proc >>

\* Time passes, up to the last tick of the model.
Tick(last) ==
    /\ now < last
    /\ now' = now + 1
    /\ UNCHANGED << alert_config, products, alert_notifications, mailbox,
                    isInitialized, cronJobs, tasks, serverUp, proc >>

----------------------------------------------------------------------------
(* The initial states and the specifications *)

Row(stockCantidad, lowStockThreshold) ==
    [ stockCantidad |-> stockCantidad, lowStockThreshold |-> lowStockThreshold,
      stock |-> "Disponible", lowStockNotifiedAt |-> None ]

\* Product 1 has few units, with or without a threshold of its own below them;
\* product 2 has many.  The rows may be those of an earlier run of the server
\* that notified product 1 just before this one started.
InitProducts ==
    { [ p \in Products |-> IF p = 1 THEN Row(3, t) ELSE Row(12, None) ] :
        t \in { None, Some(2) } }
    \cup { [ p \in Products |->
               IF p = 1 THEN [ Row(3, None) EXCEPT !.lowStockNotifiedAt = Some(0) ]
                        ELSE Row(12, None) ] }

StockValues == { "Disponible", "Sin Stock", "Consultar" }

\* The table is empty on a first start, or holds the row of an earlier run.
InitConfigs ==
    { << >>, << [ DefaultConfigRow EXCEPT !.recipients = Some(Recipients) ] >> }

\* The bodies of PUT /api/alerts/config the model sends.
PutBodies ==
    { [ f \in { "isEnabled" } |-> b ] : b \in BOOLEAN }
    \cup { [ f \in { "recipients" } |-> Some(l) ] : l \in { << >>, Recipients } }
    \cup { [ f \in { "summaryFrequency" } |-> q ] : q \in { "daily", "weekly" } }

DigestProducts ==
    { [ p \in Products |-> IF p = 1 THEN Row(3, None) ELSE Row(12, None) ] }

InitWith(configs, rows) ==
    /\ now = 0
    /\ alert_config \in configs
    /\ products \in rows
    /\ alert_notifications = << >>
    /\ mailbox = << >>
    /\ isInitialized = FALSE
    /\ cronJobs = << >>
    /\ tasks = << >>
    /\ serverUp = FALSE
    /\ proc = [ r \in Slots |-> IdleProc ]

Init == InitWith(InitConfigs, DigestProducts)

\* The steps of the calls in slot r.
InitializeStep(r) ==
    \/ InitializeConfig(r)
    \/ InitializeSchedule(r)
    \/ Return(r)

PutConfigStep(r) ==
    \/ PutConfigUpdate(r)
    \/ PutConfigReconfigure(r)

CheckLowStockStep(r) ==
    \/ CheckLowStockConfig(r)
    \/ CheckLowStockProducts(r)
    \/ CheckLowStockSend(r)
    \/ CheckLowStockUpdateTime(r)
    \/ CheckLowStockLog(r)

SendDigestStep(r) ==
    \/ SendDigestConfig(r)
    \/ SendDigestStats(r)
    \/ SendDigestProducts(r)
    \/ SendDigestSend(r)
    \/ SendDigestUpdateConfig(r)
    \/ SendDigestLog(r)

\* One call at a time: a call is made, and time passes, only while no other call
\* is in flight.  Spec has every caller of the engine, over a short time.
Next ==
    \/ AllIdle /\ Startup(1)
    \/ AllIdle /\ CallInitialize(1)
    \/ AllIdle /\ CallStop(1)
    \/ AllIdle /\ \E body \in PutBodies : CallPutConfig(1, body)
    \/ AllIdle /\ CronStockCheck(1)
    \/ AllIdle /\ CronDailyDigest(1)
    \/ AllIdle /\ CronWeeklyDigest(1)
    \/ AllIdle /\ \E force \in BOOLEAN : ManualStockCheck(1, force)
    \/ AllIdle /\ \E frequency \in { "daily", "weekly" } : ManualDigest(1, frequency)
    \/ AllIdle /\ Tick(MaxTime)
    \/ GetAlertConfigMiss(1)
    \/ InitializeStep(1)
    \/ PutConfigStep(1)
    \/ CheckLowStockStep(1)
    \/ SendDigestStep(1)

Spec == Init /\ [][Next]_vars

\* The stock checks alone, over the days the 24-hour window needs.
StockNext ==
    \/ AllIdle /\ Startup(1)
    \/ AllIdle /\ CronStockCheck(1)
    \/ AllIdle /\ \E force \in BOOLEAN : ManualStockCheck(1, force)
    \/ AllIdle /\ \E p \in Products, stock \in StockValues : UpdateProduct(p, stock)
    \/ AllIdle /\ Tick(MaxStockTime)
    \/ InitializeStep(1)
    \/ CheckLowStockStep(1)

StockConfigs ==
    { << [ DefaultConfigRow EXCEPT !.recipients = Some(Recipients) ] >> }

SpecStock == InitWith(StockConfigs, InitProducts) /\ [][StockNext]_vars

\* The digests alone, over the days the weekly window needs.
DigestNext ==
    \/ AllIdle /\ Startup(1)
    \/ AllIdle /\ CronDailyDigest(1)
    \/ AllIdle /\ CronWeeklyDigest(1)
    \/ AllIdle /\ \E frequency \in { "daily", "weekly" } : ManualDigest(1, frequency)
    \/ AllIdle /\ Tick(MaxDigestTime)
    \/ InitializeStep(1)
    \/ SendDigestStep(1)

DigestConfigs ==
    { << [ DefaultConfigRow EXCEPT !.recipients = Some(Recipients),
                                   !.summaryFrequency = q ] >> :
        q \in { "daily", "weekly" } }

SpecDigest == InitWith(DigestConfigs, DigestProducts) /\ [][DigestNext]_vars

\* The engine's life cycle with calls that overlap: a second call may be made
\* while the first is suspended on an await.
OverlapBodies ==
    { [ f \in { "isEnabled" } |-> b ] : b \in BOOLEAN }
    \cup { [ f \in { "summaryFrequency" } |-> q ] : q \in { "daily", "weekly" } }

\* A call takes the first slot that is free.
FirstIdle(r) == Idle(r) /\ \A q \in Slots : q < r => ~Idle(q)

OverlapNext ==
    \/ Startup(1)
    \/ \E r \in Slots : FirstIdle(r) /\ CallInitialize(r)
    \/ \E r \in Slots : FirstIdle(r) /\ CallStop(r)
    \/ \E r \in Slots, body \in OverlapBodies : FirstIdle(r) /\ CallPutConfig(r, body)
    \/ \E r \in Slots : GetAlertConfigMiss(r)
    \/ \E r \in Slots : InitializeStep(r)
    \/ \E r \in Slots : PutConfigStep(r)

SpecOverlap == InitWith(InitConfigs, DigestProducts) /\ [][OverlapNext]_vars

\* One call at a time, with storage calls that may reject: the scheduled tasks,
\* the life cycle and the product updates, within one tick.
FailBodies == { [ f \in { "isEnabled" } |-> b ] : b \in BOOLEAN }

FailNext ==
    \/ AllIdle /\ Startup(1)
    \/ AllIdle /\ CallInitialize(1)
    \/ AllIdle /\ \E body \in FailBodies : CallPutConfig(1, body)
    \/ AllIdle /\ CronStockCheck(1)
    \/ AllIdle /\ CronDailyDigest(1)
    \/ AllIdle /\ \E p \in Products, stock \in { "Disponible", "Sin Stock" } :
                     UpdateProduct(p, stock)
    \/ GetAlertConfigMiss(1)
    \/ InitializeStep(1)
    \/ PutConfigStep(1)
    \/ CheckLowStockStep(1)
    \/ SendDigestStep(1)
    \/ StorageFails(1)

SpecFail == Init /\ [][FailNext]_vars

\* The low-stock query on its inputs: the stock check over inventories and
\* default thresholds drawn from the values around the thresholds.
Quantities == { 0, 1, 4, 5, 9, 10 }

LowStockRows ==
    { [ p \in Products |->
          IF p = 1 THEN [ Row(q, t) EXCEPT !.stock = st ] ELSE Row(q2, None) ] :
        q \in Quantities, t \in { None, Some(5) }, st \in StockValues,
        q2 \in { 4, 12 } }

LowStockConfigs ==
    { << [ DefaultConfigRow EXCEPT !.recipients = Some(Recipients),
                                   !.defaultThreshold = d ] >> :
        d \in { None, Some(1), Some(5), Some(10) } }

LowStockNext ==
    \/ AllIdle /\ Startup(1)
    \/ AllIdle /\ CronStockCheck(1)
    \/ InitializeStep(1)
    \/ CheckLowStockStep(1)

SpecLowStock == InitWith(LowStockConfigs, LowStockRows) /\ [][LowStockNext]_vars

----------------------------------------------------------------------------
(* The claims.  Under Spec, SpecStock and SpecDigest one call is in flight   *)
(* at a time, so what a call did is the difference to the state it started *)
(* in.                                                                     *)

Done(r, op) == proc[r].op = op /\ proc[r].pc = "done"

\* The calls of sendEmail and the log entries made since the call in slot r began.
MailsBy(r) == SubSeq(mailbox, proc[r].pre.nmail + 1, Len(mailbox))
LogsBy(r) == SubSeq(alert_notifications, proc[r].pre.nlog + 1, Len(alert_notifications))

\* The configuration row the call in slot r started with.
PreConfig(r) == proc[r].pre.alert_config[1]

\* The configuration row is disabled, or has no recipient.
Disallowed(config) ==
    \/ ~config.isEnabled
    \/ config.recipients = None
    \/ config.recipients = Some(<< >>)

\* The call in slot r sent nothing, logged nothing and wrote nothing.
NoEffect(r) ==
    /\ Len(MailsBy(r)) = 0
    /\ Len(LogsBy(r)) = 0
    /\ alert_config = proc[r].pre.alert_config
    /\ products = proc[r].pre.products

DailyMailsOn(d) ==
    { i \in 1..Len(mailbox) :
        /\ mailbox[i].kind = "digest" /\ mailbox[i].frequency = "daily"
        /\ mailbox[i].ok /\ DayOf(mailbox[i].at) = d }

DailySentLogsOn(d) ==
    { i \in 1..Len(alert_notifications) :
        /\ alert_notifications[i].type = "digest"
        /\ alert_notifications[i].subject = "Resumen Diario"
        /\ alert_notifications[i].status = "sent"
        /\ DayOf(alert_notifications[i].sentAt) = d }

\* A sendDigest("daily") call has returned; sentToday: the guard timestamp it
\* started with is of the day it ran on.
DailyDone(r) == Done(r, "sendDigest") /\ proc[r].frequency = "daily"
SentToday(r) ==
    /\ IsSome(PreConfig(r).lastDailyDigestAt)
    /\ DayOf(Get(PreConfig(r).lastDailyDigestAt)) = DayOf(now)

\* C1: with the configuration enabled and recipients set, non-overlapping
\* sendDigest("daily") calls on one calendar day send one successful digest
\* email, append one "sent" digest entry and write lastDailyDigestAt once: no day
\* has two successful daily emails or two "sent" daily entries; a call on a day
\* whose digest was sent does nothing; any other call sends exactly one email
\* and, when the transport accepts it, appends one "sent" entry and sets
\* lastDailyDigestAt to the current time, changing nothing else.
C1_DailyDigestOncePerDay ==
    /\ \A d \in 0..DayOf(now) :
         /\ Cardinality(DailyMailsOn(d)) <= 1
         /\ Cardinality(DailySentLogsOn(d)) <= 1
    /\ \A r \in Slots :
         DailyDone(r) /\ ~Disallowed(PreConfig(r)) =>
           IF SentToday(r)
             THEN NoEffect(r)
             ELSE /\ Len(MailsBy(r)) = 1
                  /\ MailsBy(r)[1].kind = "digest"
                  /\ MailsBy(r)[1].frequency = "daily"
                  /\ MailsBy(r)[1].ok =>
                       /\ Len(LogsBy(r)) = 1
                       /\ LogsBy(r)[1].status = "sent"
                       /\ LogsBy(r)[1].type = "digest"
                       /\ alert_config =
                            << [ PreConfig(r) EXCEPT !.lastDailyDigestAt = Some(now) ] >>

\* A second daily call of the day has returned, later in the day than the
\* successful first one.
C1_Witness ==
    \E r \in Slots :
      /\ DailyDone(r) /\ SentToday(r)
      /\ Get(PreConfig(r).lastDailyDigestAt) < now
      /\ Cardinality(DailyMailsOn(DayOf(now))) = 1
      /\ NoEffect(r)

WeeklyDone(r) == Done(r, "sendDigest") /\ proc[r].frequency = "weekly"

\* Ticks since the weekly guard timestamp the call in slot r started with.
SinceWeekly(r) == now - Get(PreConfig(r).lastWeeklyDigestAt)

\* C2: with the configuration enabled and recipients set, sendDigest("weekly")
\* does nothing when lastWeeklyDigestAt is set and less than 7 days old, and
\* hands one weekly digest to the mail transport when it is absent or 7 days old
\* or more.
C2_WeeklyWindow ==
    \A r \in Slots :
      WeeklyDone(r) /\ ~Disallowed(PreConfig(r)) =>
        IF /\ IsSome(PreConfig(r).lastWeeklyDigestAt)
           /\ SinceWeekly(r) < WeeklyDays * TicksPerDay
          THEN NoEffect(r)
          ELSE /\ Len(MailsBy(r)) = 1
               /\ MailsBy(r)[1].kind = "digest"
               /\ MailsBy(r)[1].frequency = "weekly"

\* A weekly call exactly 7 days after the last weekly digest has dispatched.
C2_Witness ==
    \E r \in Slots :
      /\ WeeklyDone(r)
      /\ IsSome(PreConfig(r).lastWeeklyDigestAt)
      /\ SinceWeekly(r) = WeeklyDays * TicksPerDay
      /\ Len(MailsBy(r)) = 1

\* The transport refused the email of the sendDigest call in slot r.
DigestFailed(r) ==
    /\ Done(r, "sendDigest")
    /\ Len(MailsBy(r)) = 1
    /\ ~MailsBy(r)[1].ok

\* C7: when the mail transport fails inside sendDigest(f), one "error" digest
\* entry is appended and the configuration (lastDailyDigestAt and
\* lastWeeklyDigestAt with it) stays as it was, so the period guard lets a later
\* sendDigest(f) of the same period through.
C7_DigestFailureKeepsGuards ==
    \A r \in Slots :
      DigestFailed(r) =>
        /\ Len(LogsBy(r)) = 1
        /\ LogsBy(r)[1].type = "digest"
        /\ LogsBy(r)[1].status = "error"
        /\ alert_config = proc[r].pre.alert_config
        /\ products = proc[r].pre.products
        /\ \A t \in now..MaxDigestTime :
             (proc[r].frequency = "daily" => DayOf(t) = DayOf(now))
               => ~AlreadySent(proc[r].frequency, alert_config[1], t)

\* A daily digest failed on a day after one that had a successful digest.
C7_Witness ==
    \E r \in Slots :
      /\ DigestFailed(r)
      /\ proc[r].frequency = "daily"
      /\ IsSome(alert_config[1].lastDailyDigestAt)

----------------------------------------------------------------------------
(* checkLowStock *)

\* The low-stock products of rows under the configuration the call in slot r
\* started with.
LowStockIn(r, rows) ==
    { p \in DOMAIN rows : IsLowStock(rows[p], PreConfig(r).defaultThreshold) }

\* Those of them never notified, or notified a full day or more before t.
EligibleAt(r, rows, t) ==
    { p \in LowStockIn(r, rows) :
        \/ ~IsSome(rows[p].lowStockNotifiedAt)
        \/ t - Get(rows[p].lowStockNotifiedAt) >= TicksPerDay }

\* What a check with the flag force has to notify at t.
Notifiable(r, rows, force, t) ==
    IF force THEN LowStockIn(r, rows) ELSE EligibleAt(r, rows, t)

\* The call in slot r is a checkLowStock that has filtered the low-stock rows.
Filtered(r) ==
    /\ proc[r].op = "checkLowStock"
    /\ proc[r].pc \in { "sendLowStockAlert", "updateProductNotificationTime",
                        "createAlertNotification", "done" }
    /\ ~Disallowed(PreConfig(r))

\* C3: in a non-forced checkLowStock the products to notify are the low-stock
\* products whose own lowStockNotifiedAt is absent or 24 hours old or more:
\* one notified a tick less than a day ago is left out, one notified exactly a
\* day ago is taken, whatever the timestamps of the other products are.
C3_DedupWindowPerProduct ==
    \A r \in Slots :
      Filtered(r) /\ ~proc[r].forceNotification =>
        /\ SeqToSet(proc[r].productsToNotify) = EligibleAt(r, proc[r].pre.products, now)
        /\ \A p \in LowStockIn(r, proc[r].pre.products) :
             LET at == proc[r].pre.products[p].lowStockNotifiedAt
             IN  /\ IsSome(at) /\ now - Get(at) = TicksPerDay - 1
                     => p \notin SeqToSet(proc[r].productsToNotify)
                 /\ IsSome(at) /\ now - Get(at) = TicksPerDay
                     => p \in SeqToSet(proc[r].productsToNotify)

\* A non-forced check takes a product notified exactly a day before, while the
\* other product was notified since and is left out.
C3_Witness ==
    \E r \in Slots, p, q \in Products :
      /\ Filtered(r) /\ ~proc[r].forceNotification
      /\ p \in SeqToSet(proc[r].productsToNotify)
      /\ IsSome(proc[r].pre.products[p].lowStockNotifiedAt)
      /\ now - Get(proc[r].pre.products[p].lowStockNotifiedAt) = TicksPerDay
      /\ q \in LowStockIn(r, proc[r].pre.products)
      /\ q \notin SeqToSet(proc[r].productsToNotify)

\* The products an email lists.
Listed(mail) == { mail.products[i].sku : i \in 1..Len(mail.products) }

\* C4: a checkLowStock call reaches the mail transport at most once, and the
\* email it hands over lists every product the call has to notify (the eligible
\* low-stock products; with forceNotification every low-stock product) once,
\* and no other.
C4_OneMailListingEligible ==
    \A r \in Slots :
      proc[r].op = "checkLowStock" =>
        /\ Len(MailsBy(r)) <= 1
        /\ Len(MailsBy(r)) = 1 =>
             /\ MailsBy(r)[1].kind = "low_stock"
             /\ Listed(MailsBy(r)[1]) =
                  Notifiable(r, proc[r].pre.products, proc[r].forceNotification, now)
             /\ Len(MailsBy(r)[1].products) = Cardinality(Listed(MailsBy(r)[1]))

\* A non-forced check has returned after one email that lists two products.
C4_Witness ==
    \E r \in Slots :
      /\ Done(r, "checkLowStock") /\ ~proc[r].forceNotification
      /\ Len(MailsBy(r)) = 1
      /\ Cardinality(Listed(MailsBy(r)[1])) = 2

\* The transport accepted the email of the checkLowStock call in slot r.
CheckSent(r) ==
    /\ proc[r].op = "checkLowStock"
    /\ Len(MailsBy(r)) = 1
    /\ MailsBy(r)[1].ok

\* C5: when the email of checkLowStock is accepted, lowStockNotifiedAt becomes
\* the current time for every product notified, and only once all of them are
\* written one "sent" low_stock entry is appended; every other product keeps the
\* row it had.
C5_SuccessStampsThenLogs ==
    \A r \in Slots :
      CheckSent(r) =>
        LET notified == Notifiable(r, proc[r].pre.products, proc[r].forceNotification, now)
            stamped(p) == [ proc[r].pre.products[p] EXCEPT !.lowStockNotifiedAt = Some(now) ]
        IN  /\ \A p \in Products \ notified : products[p] = proc[r].pre.products[p]
            /\ \A p \in notified : products[p] \in { proc[r].pre.products[p], stamped(p) }
            /\ Len(LogsBy(r)) <= 1
            /\ Len(LogsBy(r)) = 1 =>
                 /\ LogsBy(r)[1].type = "low_stock"
                 /\ LogsBy(r)[1].status = "sent"
                 /\ \A p \in notified : products[p] = stamped(p)
            /\ proc[r].pc = "done" => Len(LogsBy(r)) = 1

\* A successful check has returned that notified one product and left the
\* other, notified earlier, alone.
C5_Witness ==
    \E r \in Slots, p, q \in Products :
      /\ CheckSent(r) /\ proc[r].pc = "done"
      /\ products[p].lowStockNotifiedAt = Some(now)
      /\ proc[r].pre.products[p].lowStockNotifiedAt # Some(now)
      /\ IsSome(products[q].lowStockNotifiedAt)
      /\ Get(products[q].lowStockNotifiedAt) < now

\* The transport refused the email of the checkLowStock call in slot r, which
\* has returned.
CheckFailed(r) ==
    /\ Done(r, "checkLowStock")
    /\ Len(MailsBy(r)) = 1
    /\ ~MailsBy(r)[1].ok

\* What a checkLowStock with the flag force would notify at t, the rows and the
\* configuration being as they are now.
NextRun(r, force, t) == Notifiable(r, products, force, t)

\* C6: when the transport refuses the email of checkLowStock, one "error"
\* low_stock entry is appended and no product row changes, so that a later
\* checkLowStock with the same forceNotification flag (or a forced one), the
\* inventory unchanged, has every product of the failed run to notify again,
\* and possibly more, and sends.
C6_FailureKeepsTimestamps ==
    \A r \in Slots :
      CheckFailed(r) =>
        /\ Len(LogsBy(r)) = 1
        /\ LogsBy(r)[1].type = "low_stock"
        /\ LogsBy(r)[1].status = "error"
        /\ products = proc[r].pre.products
        /\ SeqToSet(proc[r].productsToNotify) # {}
        /\ \A t \in now..MaxStockTime, force \in { proc[r].forceNotification, TRUE } :
             SeqToSet(proc[r].productsToNotify) \subseteq NextRun(r, force, t)

\* A non-forced check failed, and a later non-forced check has one more
\* product to notify than it had.
C6_Witness ==
    \E r \in Slots, t \in now..MaxStockTime :
      /\ CheckFailed(r) /\ ~proc[r].forceNotification
      /\ SeqToSet(proc[r].productsToNotify) # NextRun(r, FALSE, t)
      /\ SeqToSet(proc[r].productsToNotify) \subseteq NextRun(r, FALSE, t)

\* C6 as stated: after a failure the next checkLowStock, whenever it runs
\* (here with the flag of the failed run), computes the set of the failed run.
C6_NextRunSameSet ==
    \A r \in Slots :
      CheckFailed(r) =>
        /\ Len(LogsBy(r)) = 1
        /\ LogsBy(r)[1].status = "error"
        /\ products = proc[r].pre.products
        /\ \A t \in now..MaxStockTime :
             NextRun(r, proc[r].forceNotification, t) = SeqToSet(proc[r].productsToNotify)

----------------------------------------------------------------------------
(* Both operations under a configuration that does not allow them *)

\* C8: when the configuration is disabled, or its recipients are empty or
\* absent, checkLowStock and sendDigest send no email, append no log entry and
\* write no product row and no field of the configuration row (on an empty
\* table the read creates the default row, which has no recipients).
C8_NotAllowedNoEffect ==
    \A r \in Slots :
      /\ Done(r, "checkLowStock") \/ Done(r, "sendDigest")
      /\ proc[r].config # None /\ Disallowed(Get(proc[r].config))
      => /\ Len(MailsBy(r)) = 0
         /\ Len(LogsBy(r)) = 0
         /\ products = proc[r].pre.products
         /\ alert_config = IF proc[r].pre.alert_config = << >>
                             THEN << DefaultConfigRow >>
                             ELSE proc[r].pre.alert_config

\* A stock check has returned under a disabled configuration that has
\* recipients, with a low-stock product never notified in the inventory.
C8_Witness ==
    \E r \in Slots :
      /\ Done(r, "checkLowStock")
      /\ proc[r].pre.alert_config # << >>
      /\ ~PreConfig(r).isEnabled
      /\ PreConfig(r).recipients = Some(Recipients)
      /\ EligibleAt(r, products, now) # {}
      /\ Len(MailsBy(r)) = 0

----------------------------------------------------------------------------
(* The life cycle *)

\* C9: initialize() called while the engine is Running returns at once: no
\* task is created or replaced, the registry and isInitialized are as they
\* were, and the configuration is not read.
C9_InitializeWhileRunning ==
    \A r \in Slots :
      Done(r, "initialize") /\ proc[r].pre.isInitialized =>
        /\ tasks = proc[r].pre.tasks
        /\ cronJobs = proc[r].pre.cronJobs
        /\ isInitialized
        /\ alert_config = proc[r].pre.alert_config
        /\ proc[r].config = None

\* initialize() was called again after start-up had scheduled the tasks.
C9_Witness ==
    \E r \in Slots :
      /\ Done(r, "initialize") /\ proc[r].via = "call"
      /\ proc[r].pre.isInitialized
      /\ DOMAIN tasks # {}
      /\ tasks = proc[r].pre.tasks

\* The step in which stop() runs in slot r, called on its own or by
\* reconfigure().
StopRuns(r) ==
    \/ proc[r].op = "idle" /\ proc'[r].op = "stop"
    \/ proc[r].pc = "reconfigure" /\ proc'[r].pc = "getAlertConfig"

\* C10: stop(), in any state of the engine, leaves no task running, the
\* registry empty and the engine not initialized.
C10_StopCancelsEveryTask ==
    [][ \A r \in Slots :
          StopRuns(r) => /\ DOMAIN tasks' = {}
                         /\ DOMAIN cronJobs' = {}
                         /\ ~isInitialized' ]_vars

----------------------------------------------------------------------------
(* reconfigure and initialize *)

\* The names of the tasks that run, and the name of the digest task of a
\* summaryFrequency.
Running == { tasks[id] : id \in DOMAIN tasks }
DigestTaskOf(frequency) ==
    IF frequency = "daily" THEN "daily-digest" ELSE "weekly-digest"

\* Every running task is the one the registry holds under its name.
AllRegistered ==
    /\ \A id \in DOMAIN tasks : tasks[id] \in DOMAIN cronJobs /\ cronJobs[tasks[id]] = id
    /\ \A n \in DOMAIN cronJobs : cronJobs[n] \in DOMAIN tasks

\* C11: when PUT /api/alerts/config has run reconfigure() to its end with no
\* other call in flight, the engine follows the configuration row as persisted:
\* enabled, it is initialized and exactly two tasks run, both registered, the
\* stock check and the digest of the row's summaryFrequency; disabled, it is
\* not initialized and no task runs.  No task of the earlier configuration is
\* left.
C11_ReconfigureFollowsConfig ==
    \A r \in Slots :
      Done(r, "putConfig") =>
        /\ alert_config # << >>
        /\ proc[r].config = Some(alert_config[1])
        /\ IF alert_config[1].isEnabled
             THEN /\ isInitialized
                  /\ Running = { "stock-check", DigestTaskOf(alert_config[1].summaryFrequency) }
                  /\ Cardinality(DOMAIN tasks) = 2
                  /\ AllRegistered
             ELSE /\ ~isInitialized
                  /\ DOMAIN tasks = {}
                  /\ DOMAIN cronJobs = {}

\* A reconfigure that changed the digest from daily to weekly has ended, with
\* the daily task gone.
C11_Witness ==
    \E r \in Slots :
      /\ Done(r, "putConfig")
      /\ proc[r].pre.isInitialized
      /\ "daily-digest" \in { proc[r].pre.tasks[id] : id \in DOMAIN proc[r].pre.tasks }
      /\ proc[r].body = [ f \in { "summaryFrequency" } |-> "weekly" ]
      /\ Running = { "stock-check", "weekly-digest" }

\* The initialize() in slot r, entered with the engine not initialized, has
\* returned after a rejected configuration read, or after reading a disabled
\* configuration.
InitializeGaveUp(r) ==
    /\ Done(r, "initialize")
    /\ ~proc[r].pre.isInitialized
    /\ \/ proc[r].failed # "none"
       \/ proc[r].config # None /\ ~Get(proc[r].config).isEnabled

\* C12: initialize() that reads a disabled configuration, or whose
\* configuration read fails, returns normally with the engine not initialized,
\* the registry empty and no task running, so that the guard of a later
\* initialize() lets it through.
C12_InitializeGivesUpIdle ==
    \A r \in Slots :
      InitializeGaveUp(r) =>
        /\ proc[r].failed # "raised"
        /\ ~isInitialized
        /\ DOMAIN cronJobs = {}
        /\ DOMAIN tasks = {}

\* An initialize() called after start-up found the engine idle and gave up in
\* its turn, its configuration read rejected.
C12_Witness ==
    \E r \in Slots :
      /\ InitializeGaveUp(r)
      /\ proc[r].via = "call"
      /\ proc[r].failed = "caught"

----------------------------------------------------------------------------
(* Failures of the collaborators *)

\* The call in slot r is a run of checkLowStock or of sendDigest.
IsRun(r) == proc[r].op \in { "checkLowStock", "sendDigest" }

\* C13: whatever collaborator fails (the mail transport refusing, or any
\* storage call rejecting), a run of checkLowStock or of sendDigest raises
\* nothing to its caller, and it leaves every task running and the registry as
\* they were.
C13_RunsNeverRaise ==
    \A r \in Slots :
      IsRun(r) =>
        /\ proc[r].failed # "raised"
        /\ tasks = proc[r].pre.tasks
        /\ cronJobs = proc[r].pre.cronJobs
        /\ isInitialized = proc[r].pre.isInitialized

\* A scheduled stock check has returned after a storage call rejected behind
\* an accepted email, with the tasks still running.
C13_Witness ==
    \E r \in Slots :
      /\ Done(r, "checkLowStock") /\ proc[r].via = "cron"
      /\ proc[r].failed = "caught"
      /\ Len(MailsBy(r)) = 1 /\ MailsBy(r)[1].ok
      /\ "stock-check" \in Running

\* The run in slot r returns in this step.
RunReturns(r) == IsRun(r) /\ proc[r].pc # "done" /\ proc'[r].pc = "done"

\* C14: the log is an audit trail of the dispatch attempts: a run returns with
\* one entry for each call it made to the mail transport, "sent" for an
\* accepted email and "error" for a refused one, and no step changes or removes
\* an entry the log holds.
C14_LogIsAuditTrail ==
    [][ /\ Len(alert_notifications') >= Len(alert_notifications)
        /\ SubSeq(alert_notifications', 1, Len(alert_notifications)) = alert_notifications
        /\ \A r \in Slots :
             RunReturns(r) =>
               LET mails == SubSeq(mailbox', proc[r].pre.nmail + 1, Len(mailbox'))
                   logs == SubSeq(alert_notifications', proc[r].pre.nlog + 1,
                                  Len(alert_notifications'))
               IN  /\ Len(logs) = Len(mails)
                   /\ \A i \in 1..Len(mails) :
                        logs[i].status = IF mails[i].ok THEN "sent" ELSE "error" ]_vars

----------------------------------------------------------------------------
(* The configuration row *)

\* The read of the call in slot r resolves in this step.
ReadResolves(r) == AwaitsConfig(r) /\ ~AwaitsConfig(r)'

\* C15: the configuration table holds at most one row, of id 1.  On an empty
\* table a read creates the row with threshold 10, frequency daily and enabled
\* true, and returns it; once a read has resolved the row exists; an update
\* changes that row, and no step removes it or adds another.
C15_ConfigSingleton ==
    [][ /\ Len(alert_config') <= 1
        /\ alert_config' # << >> => alert_config'[1].id = 1
        /\ alert_config # << >> => alert_config' # << >>
        /\ (\E r \in Slots : ReadResolves(r)) => alert_config' # << >>
        /\ alert_config = << >> /\ alert_config' # << >> =>
             /\ alert_config'[1].defaultThreshold = Some(10)
             /\ alert_config'[1].summaryFrequency = "daily"
             /\ alert_config'[1].isEnabled
             /\ \E r \in Slots : /\ ReadResolves(r)
                                 /\ proc'[r].config = Some(alert_config'[1]) ]_vars

\* The read of the start-up initialize() has created the row on an empty table
\* and returned it.
C15_Witness ==
    \E r \in Slots :
      /\ proc[r].via = "startup" /\ proc[r].pc = "schedule"
      /\ proc[r].pre.alert_config = << >>
      /\ Len(alert_config) = 1
      /\ proc[r].config = Some(alert_config[1])

----------------------------------------------------------------------------
(* The frame of lowStockNotifiedAt *)

\* The call in slot r is a checkLowStock writing the timestamps behind an
\* accepted email that lists product p.
StampsAfterSent(r, p) ==
    /\ CheckSent(r)
    /\ proc[r].pc = "updateProductNotificationTime"
    /\ p \in Listed(MailsBy(r)[1])

\* C16: a step changes the lowStockNotifiedAt of a product only if it is a
\* step of a checkLowStock whose email, listing that product, the transport
\* accepted: not a product update, a sendDigest, a reconfigure, nor a check
\* that failed or was skipped.
C16_NotifiedAtFrame ==
    [][ \A p \in Products :
          products'[p].lowStockNotifiedAt # products[p].lowStockNotifiedAt =>
            /\ \E r \in Slots : StampsAfterSent(r, p)
            /\ products'[p].lowStockNotifiedAt = Some(now) ]_vars

\* A check has stamped a product its accepted email lists, one that an update
\* had put out of stock, after a refused alert left the timestamps alone.
C16_Witness ==
    \E r \in Slots, p \in Products :
      /\ CheckSent(r)
      /\ p \in Listed(MailsBy(r)[1])
      /\ proc[r].pre.products[p].lowStockNotifiedAt = None
      /\ products[p].lowStockNotifiedAt = Some(now)
      /\ \E i \in 1..Len(mailbox) : mailbox[i].kind = "low_stock" /\ ~mailbox[i].ok
      /\ products[p].stock = "Sin Stock"

----------------------------------------------------------------------------
(* The low-stock query *)

\* The stock check in slot r has the rows of getLowStockProducts.
Queried(r) ==
    /\ proc[r].op = "checkLowStock"
    /\ proc[r].pc \in { "sendLowStockAlert", "updateProductNotificationTime",
                        "createAlertNotification", "done" }
    /\ proc[r].config # None /\ ~Disallowed(Get(proc[r].config))
    /\ proc[r].failed = "none"

\* C17: with a configured defaultThreshold of 1 or more, getLowStockProducts
\* returns a product exactly when its quantity is below its own threshold (the
\* default one if it has none) or its stock status is Sin Stock or Consultar.
C17_LowStockPredicate ==
    \A r \in Slots :
      Queried(r) /\ IsSome(PreConfig(r).defaultThreshold) =>
        \A p \in Products :
          LET row == proc[r].pre.products[p]
              limit == IF row.lowStockThreshold # None
                         THEN Get(row.lowStockThreshold)
                         ELSE Get(PreConfig(r).defaultThreshold)
          IN  p \in SeqToSet(proc[r].lowStockProducts)
                <=> \/ row.stockCantidad < limit
                    \/ row.stock \in { "Sin Stock", "Consultar" }

\* The query left out an available product whose quantity is at its own
\* threshold and below the default one, and returned the other product, which
\* is below the default.
C17_Witness ==
    \E r \in Slots :
      /\ Queried(r)
      /\ PreConfig(r).defaultThreshold = Some(10)
      /\ proc[r].pre.products[1].stockCantidad = 5
      /\ proc[r].pre.products[1].lowStockThreshold = Some(5)
      /\ proc[r].pre.products[1].stock = "Disponible"
      /\ proc[r].lowStockProducts = << 2 >>

----------------------------------------------------------------------------
(* The manual triggers *)

\* Before the call in slot r began, a digest of its frequency was accepted by
\* the transport: a daily one on the day of the call, a weekly one less than
\* 7 days before it.
DigestSentInPeriod(r) ==
    \E i \in 1..proc[r].pre.nmail :
      /\ mailbox[i].kind = "digest" /\ mailbox[i].ok
      /\ mailbox[i].frequency = proc[r].frequency
      /\ \/ proc[r].frequency = "daily" /\ DayOf(mailbox[i].at) = DayOf(now)
         \/ proc[r].frequency = "weekly"
              /\ now - mailbox[i].at < WeeklyDays * TicksPerDay

\* C18: manualDigest(frequency) passes through the period guard of sendDigest:
\* called on the day of an accepted daily digest, or less than 7 days after an
\* accepted weekly digest, it sends no email, appends no log entry and writes
\* nothing.
C18_ManualDigestGuarded ==
    \A r \in Slots :
      /\ Done(r, "sendDigest") /\ proc[r].via = "manual"
      /\ DigestSentInPeriod(r)
      => NoEffect(r)

\* A manual weekly digest, six and a half days after the scheduled weekly
\* digest was accepted, has returned.
C18_Witness ==
    \E r \in Slots, i \in 1..Len(mailbox) :
      /\ Done(r, "sendDigest") /\ proc[r].via = "manual"
      /\ proc[r].frequency = "weekly"
      /\ i <= proc[r].pre.nmail
      /\ mailbox[i].frequency = "weekly" /\ mailbox[i].ok
      /\ now - mailbox[i].at = WeeklyDays * TicksPerDay - 1

\* The call in slot r is a manualStockCheck(true) past its filter.
ForcedCheck(r) ==
    /\ Filtered(r)
    /\ proc[r].via = "manual"
    /\ proc[r].forceNotification

\* C19: manualStockCheck(true) takes every low-stock product whatever its
\* lowStockNotifiedAt: with a product low it calls the transport with all of
\* them, and an accepted email gets its "sent" entry, also when they were
\* notified within the last 24 hours.
C19_ForceBypassesWindow ==
    \A r \in Slots :
      ForcedCheck(r) =>
        /\ SeqToSet(proc[r].productsToNotify) = LowStockIn(r, proc[r].pre.products)
        /\ Len(MailsBy(r)) = 1 =>
             Listed(MailsBy(r)[1]) = LowStockIn(r, proc[r].pre.products)
        /\ proc[r].pc = "done" /\ LowStockIn(r, proc[r].pre.products) # {} =>
             /\ Len(MailsBy(r)) = 1
             /\ Len(LogsBy(r)) = 1
             /\ LogsBy(r)[1].status = IF MailsBy(r)[1].ok THEN "sent" ELSE "error"

\* A product notified at T and still low is, under the configuration of the
\* call in slot r, inside its 24-hour window.
InWindow(r, p) ==
    /\ p \in LowStockIn(r, proc[r].pre.products)
    /\ proc[r].pre.products[p].lowStockNotifiedAt # None
    /\ now - Get(proc[r].pre.products[p].lowStockNotifiedAt) < TicksPerDay

\* A forced check, a tick after a check notified a product, sent it again and
\* logged the second "sent" entry.
C19_Witness ==
    \E r \in Slots, p \in Products :
      /\ ForcedCheck(r) /\ proc[r].pc = "done"
      /\ InWindow(r, p)
      /\ now - Get(proc[r].pre.products[p].lowStockNotifiedAt) = 1
      /\ p \in Listed(MailsBy(r)[1])
      /\ MailsBy(r)[1].ok
      /\ Len(alert_notifications) = 2
      /\ \A i \in 1..2 : alert_notifications[i].status = "sent"

\* C20: a non-forced checkLowStock that finds every low-stock product notified
\* less than 24 hours ago sends no email, appends no log entry and changes no
\* row.
C20_RerunInWindowNoEffect ==
    \A r \in Slots :
      /\ Done(r, "checkLowStock") /\ ~proc[r].forceNotification
      /\ \A p \in LowStockIn(r, proc[r].pre.products) : InWindow(r, p)
      => NoEffect(r)

\* A scheduled check, a tick after a check notified the low-stock product, has
\* returned.
C20_Witness ==
    \E r \in Slots, p \in Products :
      /\ Done(r, "checkLowStock") /\ ~proc[r].forceNotification
      /\ \A q \in LowStockIn(r, proc[r].pre.products) : InWindow(r, q)
      /\ InWindow(r, p)
      /\ now - Get(proc[r].pre.products[p].lowStockNotifiedAt) = 1
      /\ \E i \in 1..proc[r].pre.nmail : mailbox[i].ok /\ p \in Listed(mailbox[i])

-----------------------------------------------------------------------------
(* C21: one rejected timestamp update and the other eligible products *)

\* The update of the product at position i of the loop of alerts.ts 150-152
\* is rejected in this step.
UpdateRejected(r) ==
    /\ proc[r].op = "checkLowStock"
    /\ proc[r].pc = "updateProductNotificationTime"
    /\ proc'[r].failed # "none"

\* C21: when the update of lowStockNotifiedAt is rejected for one product
\* after an accepted low-stock email, every other product of the email has
\* its lowStockNotifiedAt set to the time of the run once the run is over.
C21_UpdatesIndependent ==
    [][ \A r \in Slots :
          UpdateRejected(r) =>
            \A k \in (1..Len(proc[r].productsToNotify)) \ { proc[r].i } :
              products'[proc[r].productsToNotify[k]].lowStockNotifiedAt = Some(now)
      ]_vars

-----------------------------------------------------------------------------
(* Runs that overlap: a stock check or a digest is started (by its task or *)
(* by a route) while another one is suspended on an await.                  *)

RunsNext ==
    \/ Startup(1)
    \/ \E r \in Slots : FirstIdle(r) /\ CronStockCheck(r)
    \/ \E r \in Slots : FirstIdle(r) /\ ManualStockCheck(r, FALSE)
    \/ \E r \in Slots : FirstIdle(r) /\ CronDailyDigest(r)
    \/ \E r \in Slots : FirstIdle(r) /\ ManualDigest(r, "daily")
    \/ AllIdle /\ Tick(MaxTime)
    \/ \E r \in Slots : InitializeStep(r)
    \/ \E r \in Slots : CheckLowStockStep(r)
    \/ \E r \in Slots : SendDigestStep(r)

SpecRuns == InitWith(StockConfigs, DigestProducts) /\ [][RunsNext]_vars

\* The run in slot r applies its dedup filter in this step.
FilterStep(r) ==
    /\ proc[r].op = "checkLowStock"
    /\ proc[r].pc = "getLowStockProducts"
    /\ proc'[r].pc # "getLowStockProducts"

\* The digest in slot r applies its period guard in this step.
GuardStep(r) ==
    /\ proc[r].op = "sendDigest"
    /\ ReadResolves(r)
    /\ proc'[r].config # None
    /\ ~Disallowed(Get(proc'[r].config))

\* Product p is listed by the run in flight in slot q.
ListedBy(q, p) ==
    /\ proc[q].op = "checkLowStock"
    /\ \E k \in 1..Len(proc[q].productsToNotify) : proc[q].productsToNotify[k] = p

\* The stored timestamp of p is not inside the 24-hour window.
NotStamped(p) ==
    \/ products[p].lowStockNotifiedAt = None
    \/ now - Get(products[p].lowStockNotifiedAt) >= TicksPerDay

\* The stored guard timestamp does not close the period of a daily digest.
DailyGuardOpen ==
    \/ alert_config[1].lastDailyDigestAt = None
    \/ DayOf(Get(alert_config[1].lastDailyDigestAt)) # DayOf(now)

\* C22: nothing excludes a run from another one in flight.  A stock check that
\* filters while another run has listed a product whose lowStockNotifiedAt is
\* not yet persisted lists that product too, and a daily digest that applies
\* its guard while another daily digest is past the guard with the guard
\* timestamp not yet persisted passes the guard too.
C22_RunsNotExcluded ==
    [][ \A r \in Slots, q \in Slots :
          /\ \A p \in Products :
               ( /\ FilterStep(r)
                 /\ q # r
                 /\ ListedBy(q, p)
                 /\ NotStamped(p) )
               => \E k \in 1..Len(proc'[r].productsToNotify) :
                    proc'[r].productsToNotify[k] = p
          /\ ( /\ GuardStep(r)
               /\ proc[r].frequency = "daily"
               /\ q # r
               /\ proc[q].op = "sendDigest"
               /\ proc[q].pc \in { "getProductStats", "getLowStockProducts",
                                   "sendDigestEmail", "updateAlertConfig" }
               /\ DailyGuardOpen )
             => proc'[r].pc = "getProductStats"
      ]_vars

\* Two non-forced stock checks in flight have each had an email accepted that
\* lists the same product, less than 24 hours apart.
C22_Witness ==
    /\ Len(mailbox) = 2
    /\ \A i \in 1..2 : mailbox[i].kind = "low_stock" /\ mailbox[i].ok
    /\ \E p \in Products : p \in Listed(mailbox[1]) /\ p \in Listed(mailbox[2])
    /\ mailbox[2].at - mailbox[1].at < TicksPerDay
    /\ \A r \in Slots :
         /\ proc[r].op = "checkLowStock"
         /\ ~proc[r].forceNotification
         /\ proc[r].emailSent

-----------------------------------------------------------------------------
(* C23: the registry of an initialized engine *)

\* C23: whenever the engine is initialized, its registry holds the stock-check
\* task and exactly one digest task, the daily or the weekly one, never both.
C23_OneDigestTask ==
    isInitialized =>
      \/ DOMAIN cronJobs = { "stock-check", "daily-digest" }
      \/ DOMAIN cronJobs = { "stock-check", "weekly-digest" }

-----------------------------------------------------------------------------
(* C24: the digest and the per-product timestamps *)

-----------------------------------------------------------------------------
(* C25: the tasks that run and the registry *)

\* C25: every task that runs is held in the registry, so that stop() can
\* cancel it, whatever initialize() and reconfigure() calls overlap.
C25_ActiveTasksRegistered ==
    \A id \in DOMAIN tasks :
      \E name \in DOMAIN cronJobs : cronJobs[name] = id /\ tasks[id] = name

-----------------------------------------------------------------------------
(* C26: stop() while an initialize() is suspended *)

\* The initialize() in slot r was called with no other call in flight, before
\* the stop() that has run since in slot q and has not yet returned; in this
\* step that initialize() gets past its last await and runs to its end.
FinishesAfterStop(r, q) ==
    /\ q # r
    /\ Done(q, "stop")
    /\ proc[r].op = "initialize"
    /\ proc[r].pre.alert_config # << >>
    /\ ~proc[r].pre.isInitialized
    /\ proc[r].pc = "schedule"
    /\ proc'[r].pc = "done"

\* C26: an initialize() that was suspended on its configuration read when
\* stop() was called leaves the engine not initialized, with an empty registry
\* and no task running, when it finishes.
C26_StopNotUndone ==
    [][ \A r \in Slots, q \in Slots :
          FinishesAfterStop(r, q) =>
            /\ ~isInitialized'
            /\ DOMAIN cronJobs' = {}
            /\ DOMAIN tasks' = {}
      ]_vars

-----------------------------------------------------------------------------
(* C27: what a successful digest writes to the configuration *)

\* The guard timestamp sendDigest(frequency) is in charge of.
GuardField(frequency) ==
    IF frequency = "daily" THEN "lastDailyDigestAt" ELSE "lastWeeklyDigestAt"

\* The digest in slot r has returned after the transport accepted its email.
DigestSucceeded(r) ==
    /\ Done(r, "sendDigest")
    /\ Len(MailsBy(r)) = 1
    /\ MailsBy(r)[1].ok

-----------------------------------------------------------------------------
(* First reads of an empty configuration table: the start-up read may be    *)
(* rejected, which leaves the table empty when the routes are registered,   *)
(* and later calls of initialize() overlap.                                 *)

FirstReadNext ==
    \/ Startup(1)
    \/ \E r \in Slots : FirstIdle(r) /\ CallInitialize(r)
    \/ \E r \in Slots : FirstIdle(r) /\ CallStop(r)
    \/ \E r \in Slots : GetAlertConfigMiss(r)
    \/ \E r \in Slots : InitializeStep(r)
    \/ \E r \in Slots : StorageFails(r)

SpecFirstRead == InitWith({ << >> }, DigestProducts) /\ [][FirstReadNext]_vars

\* C28: every getAlertConfig that resolves resolves to a configuration record,
\* also when another caller is reading the empty table at the same time.
C28_ReadReturnsRecord ==
    [][ \A r \in Slots :
          ReadResolves(r) /\ proc'[r].failed = "none" => proc'[r].config # None
      ]_vars

-----------------------------------------------------------------------------
(* C29: a forced check restarts the 24-hour window *)

\* Product p was listed in an email the transport accepted less than 24 hours
\* ago, before the call in slot r was made.
NotifiedWithinDay(r, p) ==
    \E i \in 1..proc[r].pre.nmail :
      /\ mailbox[i].kind = "low_stock"
      /\ mailbox[i].ok
      /\ p \in Listed(mailbox[i])
      /\ now - mailbox[i].at < TicksPerDay

\* C29: when manualStockCheck(true) has returned at time T after the transport
\* accepted its email, every product the email lists has lowStockNotifiedAt =
\* T, whatever it was before; and a non-forced checkLowStock leaves out every
\* product listed in an email accepted less than 24 hours before it, the
\* emails of forced checks included.
C29_ForcedRestartsWindow ==
    \A r \in Slots :
      /\ ( ForcedCheck(r) /\ proc[r].pc = "done" /\ CheckSent(r) ) =>
           \A p \in Listed(MailsBy(r)[1]) :
             products[p].lowStockNotifiedAt = Some(now)
      /\ ( Filtered(r) /\ ~proc[r].forceNotification ) =>
           \A p \in Products :
             NotifiedWithinDay(r, p) => p \notin SeqToSet(proc[r].productsToNotify)

\* A forced check succeeded on a product whose lowStockNotifiedAt was 24 hours
\* old or older, and the product carries the time of the forced check.
C29_Witness ==
    \E r \in Slots, p \in Products :
      /\ ForcedCheck(r) /\ proc[r].pc = "done" /\ CheckSent(r)
      /\ p \in Listed(MailsBy(r)[1])
      /\ proc[r].pre.products[p].lowStockNotifiedAt # None
      /\ now - Get(proc[r].pre.products[p].lowStockNotifiedAt) >= TicksPerDay
      /\ products[p].lowStockNotifiedAt = Some(now)

-----------------------------------------------------------------------------
(* The hourly stock check under fairness: the stock-check task keeps firing *)
(* (node-cron fires it every hour), every awaited call of a run resolves,   *)
(* and time passes.                                                         *)

LiveNext ==
    \/ AllIdle /\ Startup(1)
    \/ AllIdle /\ CronStockCheck(1)
    \/ AllIdle /\ \E p \in Products, stock \in { "Disponible", "Sin Stock" } :
                     UpdateProduct(p, stock)
    \/ AllIdle /\ Tick(MaxStockTime)
    \/ InitializeStep(1)
    \/ CheckLowStockStep(1)

SpecLive ==
    /\ InitWith(StockConfigs, DigestProducts)
    /\ [][LiveNext]_vars
    /\ WF_vars(AllIdle /\ Startup(1))
    /\ WF_vars(InitializeStep(1))
    /\ WF_vars(CheckLowStockStep(1))
    /\ SF_vars(AllIdle /\ CronStockCheck(1))
    /\ SF_vars(AllIdle /\ Tick(MaxStockTime))

\* Product p is low in stock under the stored configuration.
Low(p) ==
    \/ products[p].stock \in { "Sin Stock", "Consultar" }
    \/ products[p].stockCantidad <
         ( IF products[p].lowStockThreshold # None
             THEN Get(products[p].lowStockThreshold)
             ELSE IF alert_config[1].defaultThreshold # None
                       /\ Get(alert_config[1].defaultThreshold) # 0
                    THEN Get(alert_config[1].defaultThreshold)
                    ELSE FallbackThreshold )

\* The engine runs, the configuration is enabled with a recipient, and product
\* p is low with no notification in the last 24 hours.
Due(p) ==
    /\ isInitialized
    /\ \E id \in DOMAIN tasks : tasks[id] = "stock-check"
    /\ alert_config # << >>
    /\ ~Disallowed(alert_config[1])
    /\ Low(p)
    /\ NotStamped(p)

\* An email listing p was accepted less than 24 hours ago.
Served(p) ==
    \E i \in 1..Len(mailbox) :
      /\ mailbox[i].kind = "low_stock"
      /\ mailbox[i].ok
      /\ p \in Listed(mailbox[i])
      /\ now - mailbox[i].at < TicksPerDay

\* C30: with the engine running, the configuration enabled with a recipient
\* and the stock-check task firing fairly, a product that is low and was not
\* notified in the last 24 hours (never, or 24 hours ago or more) is
\* eventually listed in an accepted low-stock email, unless it stops being low
\* or the transport refuses emails until the log of the model is full.  The
\* email is a new one: between runs, no email accepted in the last 24 hours
\* lists a product that is due.
C30_LowStockEventuallyListed ==
    /\ \A p \in Products :
         Due(p) ~> ( Served(p) \/ ~Low(p) \/ ~Room )
    /\ [](\A p \in Products : AllIdle /\ Due(p) => ~Served(p))

\* A product that stayed low was listed in two accepted emails, the second one
\* 24 hours or more after the first.
C30_Witness ==
    \E p \in Products :
      /\ Len(mailbox) = 2
      /\ \A i \in 1..2 : mailbox[i].kind = "low_stock" /\ mailbox[i].ok
                          /\ p \in Listed(mailbox[i])
      /\ mailbox[2].at - mailbox[1].at >= TicksPerDay
      /\ Low(p)

====
